---- MODULE Spec2Model ----
(***************************************************************************)
(* Model of the 'dag put' and 'urlstore add' commands of go-ipfs           *)
(* (core/commands/dag/dag.go, core/commands/urlstore.go) together with the *)
(* pin lock, the pin set, the block store and a garbage-collection sweep.  *)
(*                                                                         *)
(* DagPut is three cooperating parts: the caller (the Run function, which  *)
(* validates options, drains outChan inside res.Emit and then receives     *)
(* from errC), the producer goroutine (addAllAndPin followed by the two    *)
(* deferred calls), and the request context, which may be cancelled at     *)
(* any time.                                                               *)
(***************************************************************************)
EXTENDS Integers, Sequences, FiniteSets, TLC

\* ---------------------------------------------------------------- bounds
MaxFiles  == 9      \* NextFile yields at most this many files before io.EOF
MaxNodeFiles == 1   \* files per request when the node runs other commands
MaxVaried == 1      \* files up to this position parse to any node list
MaxSegs == 3        \* segments after the root in a path given to dag get
MaxConns == 3       \* connections the swarm holds when Disconnect is called

\* ------------------------------------------------------ program constants
OutChanCap == 8     \* make(chan interface{}, 8)

\* ------------------------------------------------------------------ data
\* The blocks of the model: two roots and a leaf block both link to.
RootCids == {"rootA", "rootB"}
LeafCid == "leaf"
Cids == RootCids \cup {LeafCid}
NoCid == "-"

\* Link structure of the blocks: every root links to the leaf block.
Links(c) == IF c \in RootCids THEN {LeafCid} ELSE {}

\* mh.Names: the multihash names the node knows.
MhNames == {"sha2-256", "sha1"}
HashInputs == {"", "sha2-256", "murmur9"}

\* What ParseInputs may return for the file at position i (1-based): the
\* early files parse to no node, to one root, or to a root followed by the
\* leaf; the later files to one root fixed by the position.
NodeListsAt(i) ==
    IF i <= MaxVaried
      THEN {<<>>} \cup {<<r>> : r \in RootCids}
                  \cup {<<r, LeafCid>> : r \in RootCids}
      ELSE {<<IF i % 2 = 0 THEN "rootA" ELSE "rootB">>}

Range(s) == {s[i] : i \in 1..Len(s)}

VARIABLES
    \* DagPut: request
    hash,        \* req.Options["hash"]
    dopin,       \* req.Options["pin"]
    cancelled,   \* req.Context.Done() is closed
    \* DagPut: caller (Run)
    cpc,         \* "init" | "emit" | "waitErr" | "returned"
    cerr,        \* value Run returned ("none" until it returns)
    received,    \* records the consumer emitted, in order
    \* DagPut: producer goroutine
    ppc,         \* position of the goroutine
    perr,        \* err of the goroutine's closure ("nil" until set)
    idx,         \* files NextFile has yielded
    nds,         \* result of the last ParseInputs
    firsts,      \* first node of every file ParseInputs parsed, in order
    cur,         \* the loop's local cid: nds[0].Cid() of the current file
    cids,        \* cid.NewSet()
    topin,       \* cids still to visit in cids.ForEach
    staged,      \* nodes added to the batch
    batch,       \* "none" | "open" | "committed" | "failed"
    outChan,     \* buffered channel contents
    enq,         \* every value ever sent on outChan
    closeCount,  \* times close(outChan) ran
    errSent,     \* times a value was delivered on errC
    commitCalls, \* times b.Commit ran
    pinCalls,    \* PinWithMode calls made by DagPut
    flushCalls,  \* Pinning.Flush calls made by DagPut
    pinAtFlush,  \* PinWithMode calls DagPut had made when it called Flush
    \* shared node state
    store,       \* blocks in the persistence layer
    pinset,      \* in-memory pin set: CID -> mode
    durable,     \* pin set as of the last successful Flush
    lock,        \* holder of the pin lock: "none" | "dagput" | "urladd" | "gc"
    \* GC sweep
    gpc,         \* "idle" | "locked"
    \* UrlAdd (urlAdd.Run)
    upc,         \* position of Run
    uerr,        \* value Run returned ("none" until it returns)
    udopin,      \* req.Options[pinOptionName]
    utrickle,    \* req.Options[trickleOptionName]
    hres,        \* the HTTP response: status code and ContentLength
    ureqs,       \* HTTP requests issued
    uout,        \* results emitted by UrlAdd
    uargs,       \* what UrlAdd's checks found: node, argument, configuration
    ubuild,      \* the DagBuilderParams and layout UrlAdd built with
    \* environment
    fileCap,     \* most files the request's file list may hold
    \* 'dag get' and 'dag resolve'
    qpc,         \* where the command's Run is: "init" or "returned"
    qcmd,        \* which of the two commands ran
    qin,         \* the argument as parsed and what the node's store answers
    qres,        \* what Resolver.ResolveToLastNode returned
    qout,        \* values passed to res.Emit
    qerr,        \* the error Run returned
    \* SwarmAPI.Disconnect
    shost,       \* api.node.PeerHost != nil
    sconns,      \* the swarm's open connections, in ConnsToPeer order
    sbefore,     \* the open connections when Disconnect was called
    spc,         \* where Disconnect is: "init" or "returned"
    sin,         \* the address as parsed and what Close answers
    sclosed,     \* connections closed by Disconnect, in order
    serr         \* the error Disconnect returned

vars == <<hash, dopin, cancelled, cpc, cerr, received, ppc, perr, idx, nds,
          firsts, cur, cids, topin, staged, batch, outChan, enq, closeCount,
          errSent, commitCalls, pinCalls, flushCalls, pinAtFlush, store,
          pinset, durable, lock, gpc, upc, uerr, udopin, utrickle, hres,
          ureqs, uout, uargs, ubuild, fileCap, qpc, qcmd, qin, qres, qout,
          qerr, shost, sconns, sbefore, spc, sin, sclosed, serr>>

reqVars    == <<hash, dopin>>
callerVars == <<cpc, cerr, received>>
loopVars   == <<idx, nds, firsts, cur, cids, staged>>
pinVars    == <<topin, pinCalls, flushCalls, pinAtFlush>>
chanVars   == <<outChan, enq, closeCount, errSent>>
nodeVars   == <<store, pinset, durable, lock>>
urlVars    == <<upc, uerr, udopin, utrickle, hres, ureqs, uout, uargs,
                ubuild>>
getVars    == <<qpc, qcmd, qin, qres, qout, qerr>>
swarmVars  == <<shost, sconns, sbefore, spc, sin, sclosed, serr>>
envVars    == <<fileCap, getVars, swarmVars>>
putVars    == <<reqVars, cancelled, callerVars, ppc, perr, loopVars, pinVars,
                batch, chanVars, commitCalls>>

NoPins == [c \in Cids |-> "None"]

NoResponse == [status |-> 0, len |-> 0]

NoArgs == [nodeErr |-> FALSE, isUrl |-> FALSE, cfgErr |-> FALSE,
           enabled |-> FALSE]

NotBuilt == [layout |-> "none", rawLeaves |-> FALSE, noCopy |-> FALSE]

NoResolved == [err |-> "none", cid |-> NoCid, rem |-> <<>>]

NoQuery == [nodeErr |-> FALSE, parseOk |-> FALSE, root |-> NoCid,
            segs |-> <<>>, down |-> NoCid, getOk |-> FALSE, emitOk |-> FALSE]

NoTransport == "-"
NoPeer == "-"

NoDisconnect == [parseOk |-> FALSE, id |-> NoPeer, taddr |-> NoTransport,
                 closeOk |-> FALSE]

InitCore ==
    /\ hash = "" /\ dopin = FALSE /\ cancelled = FALSE
    /\ cpc = "init" /\ cerr = "none" /\ received = <<>>
    /\ ppc = "idle" /\ perr = "nil" /\ idx = 0 /\ nds = <<>>
    /\ firsts = <<>> /\ cur = NoCid /\ cids = {} /\ topin = {}
    /\ staged = {} /\ batch = "none"
    /\ outChan = <<>> /\ enq = <<>> /\ closeCount = 0 /\ errSent = 0
    /\ commitCalls = 0 /\ pinCalls = 0 /\ flushCalls = 0 /\ pinAtFlush = 0
    /\ store = {} /\ pinset = NoPins /\ durable = NoPins /\ lock = "none"
    /\ gpc = "idle"
    /\ upc = "init" /\ uerr = "none" /\ udopin = FALSE /\ utrickle = FALSE
    /\ hres = NoResponse /\ ureqs = 0 /\ uout = <<>>
    /\ uargs = NoArgs /\ ubuild = NotBuilt
    /\ qpc = "init" /\ qcmd = "none" /\ qin = NoQuery /\ qres = NoResolved
    /\ qout = <<>> /\ qerr = "none"
    /\ sbefore = <<>> /\ spc = "init" /\ sin = NoDisconnect
    /\ sclosed = <<>> /\ serr = "none"

\* A node whose swarm has no open connection.
InitNode == InitCore /\ shost = TRUE /\ sconns = <<>>

\* A request with up to MaxFiles files, on a node doing nothing else.
Init == InitNode /\ fileCap = MaxFiles

\* A request with up to MaxNodeFiles files, on a node that also runs
\* 'urlstore add' and garbage collection.
InitBusy == InitNode /\ fileCap = MaxNodeFiles

\* ------------------------------------------------------- DagPut: caller

\* Variant of HashOk that skips the lookup in mh.Names.
HashOkAny(h) == TRUE

\* dag.go:82-88: the hash option is looked up in mh.Names unless empty.
HashOk(h) == h = "" \/ h \in MhNames

\* dag.go:67-90 and 151-157: option validation, make(outChan), go func().
DagPutRun ==
    /\ cpc = "init"
    /\ \E h \in HashInputs, p \in BOOLEAN, nodeErr \in BOOLEAN :
          /\ hash' = h
          /\ dopin' = p
          /\ IF nodeErr
               THEN /\ cpc' = "returned" /\ cerr' = "ErrGetNode"
                    /\ ppc' = ppc
               ELSE IF ~HashOk(h)
                 THEN /\ cpc' = "returned" /\ cerr' = "ErrBadHash"
                      /\ ppc' = ppc
                 ELSE /\ cpc' = "emit" /\ cerr' = cerr
                      /\ ppc' = "begin"
    /\ UNCHANGED <<cancelled, received, perr, loopVars, pinVars, batch,
                   chanVars, commitCalls, nodeVars, gpc,
                   urlVars, envVars>>

\* res.Emit(outChan), one iteration: take the next record off the channel
\* and emit it; a failing emit makes Run return that error (dag.go:159-162).
EmitNext ==
    /\ cpc = "emit"
    /\ outChan # <<>>
    /\ outChan' = Tail(outChan)
    /\ \E ok \in BOOLEAN :
          IF ok THEN /\ received' = Append(received, Head(outChan))
                     /\ UNCHANGED <<cpc, cerr>>
                ELSE /\ cpc' = "returned" /\ cerr' = "ErrEmit"
                     /\ UNCHANGED received
    /\ UNCHANGED <<reqVars, cancelled, ppc, perr, loopVars, pinVars, batch,
                   enq, closeCount, errSent, commitCalls, nodeVars, gpc,
                   urlVars, envVars>>

\* res.Emit(outChan) returns nil once the channel is closed and drained;
\* Run moves on to the receive from errC (dag.go:159-164).
EmitEnd ==
    /\ cpc = "emit"
    /\ outChan = <<>>
    /\ closeCount > 0
    /\ cpc' = "waitErr"
    /\ UNCHANGED <<reqVars, cancelled, cerr, received, ppc, perr, loopVars,
                   pinVars, batch, chanVars, commitCalls, nodeVars, gpc,
                   urlVars, envVars>>

\* The request context is cancelled by the client or the daemon.
Cancel ==
    /\ ~cancelled
    /\ cancelled' = TRUE
    /\ UNCHANGED <<reqVars, callerVars, ppc, perr, loopVars, pinVars, batch,
                   chanVars, commitCalls, nodeVars, gpc, urlVars, envVars>>

\* ----------------------------------------------------- DagPut: producer

\* dag.go:93-94: cids := cid.NewSet(); b := ipld.NewBatch(...).
Begin ==
    /\ ppc = "begin"
    /\ ppc' = "nextFile"
    /\ batch' = "open"
    /\ cids' = {}
    /\ staged' = {}
    /\ UNCHANGED <<reqVars, cancelled, callerVars, perr, idx, nds, firsts,
                   cur, pinVars, chanVars, commitCalls, nodeVars, gpc,
                   urlVars, envVars>>

\* Variants of AfterReturn: the goroutine sends on errC without closing
\* outChan; an error 'return' written as 'break', which falls to Commit.
AfterReturnNoClose == "sendErr"
AfterReturnBreak == "commit"

\* Where the goroutine goes when addAllAndPin returns before line 135: no
\* deferred call of addAllAndPin is registered yet, so the goroutine's own
\* deferred calls run next (dag.go:154-155, last registered first).
AfterReturn == "close"

\* dag.go:97-103: f.NextFile() yields io.EOF, an error or the next file.
NextFile ==
    /\ ppc = "nextFile"
    /\ \E r \in {"eof", "err", "file"} :
          /\ r = "file" => idx < fileCap
          /\ CASE r = "eof"  -> /\ ppc' = "commit"
                                /\ UNCHANGED <<perr, idx>>
               [] r = "err"  -> /\ ppc' = AfterReturn
                                /\ perr' = "ErrNextFile"
                                /\ UNCHANGED idx
               [] r = "file" -> /\ ppc' = "parse"
                                /\ idx' = idx + 1
                                /\ UNCHANGED perr
    /\ UNCHANGED <<reqVars, cancelled, callerVars, nds, firsts, cur, cids,
                   staged, pinVars, batch, chanVars, commitCalls, nodeVars,
                   gpc, urlVars, envVars>>

\* dag.go:109: a parse that yields no node is an error.
NoNodes(l) == Len(l) = 0

\* dag.go:105-111: coredag.ParseInputs on the current file.
ParseInputs ==
    /\ ppc = "parse"
    /\ \/ /\ ppc' = AfterReturn
          /\ perr' = "ErrParse"
          /\ UNCHANGED <<nds, firsts>>
       \/ \E l \in NodeListsAt(idx) :
             IF NoNodes(l)
               THEN /\ ppc' = AfterReturn
                    /\ perr' = "ErrNoNodes"
                    /\ UNCHANGED <<nds, firsts>>
               ELSE /\ ppc' = "add"
                    /\ nds' = l
                    /\ firsts' = Append(firsts, l[1])
                    /\ UNCHANGED perr
    /\ UNCHANGED <<reqVars, cancelled, callerVars, idx, cur, cids, staged,
                   pinVars, batch, chanVars, commitCalls, nodeVars, gpc,
                   urlVars, envVars>>

\* Variant of RootOf that reports the last node parsed from the file.
RootOfLast(l) == l[Len(l)]

\* dag.go:120: the CID reported for a file is that of its first node.
RootOf(l) == l[1]

\* dag.go:113-121: every node is added to the batch; the first failing Add
\* returns its error; otherwise the root's CID is recorded in cids.
AddNodes ==
    /\ ppc = "add"
    /\ \/ \E k \in 1..Len(nds) :
             /\ staged' = staged \cup {nds[j] : j \in 1..(k - 1)}
             /\ ppc' = AfterReturn
             /\ perr' = "ErrAdd"
             /\ UNCHANGED <<cur, cids>>
       \/ /\ staged' = staged \cup Range(nds)
          /\ cur' = RootOf(nds)
          /\ cids' = cids \cup {RootOf(nds)}
          /\ ppc' = "select"
          /\ UNCHANGED perr
    /\ UNCHANGED <<reqVars, cancelled, callerVars, idx, nds, firsts, pinVars,
                   batch, chanVars, commitCalls, nodeVars, gpc, urlVars,
                   envVars>>

\* Variant of SelectReady whose send never waits for room in the channel.
SelectReadyUnbounded(ch, done) ==
    {"send"} \cup (IF done THEN {"done"} ELSE {})

\* dag.go:123-127: the cases of the select that can proceed.  Go picks one
\* of the ready cases at random.
SelectReady(ch, done) ==
    (IF Len(ch) < OutChanCap THEN {"send"} ELSE {}) \cup
    (IF done THEN {"done"} ELSE {})

\* Variant of AfterDone that goes on with the next file.
AfterDoneContinue == "nextFile"

\* dag.go:125-126: where the goroutine goes when the Done case is taken.
AfterDone == AfterReturn

\* dag.go:123-127: select { case outChan <- ...: case <-req.Context.Done(): }
Select ==
    /\ ppc = "select"
    /\ \E br \in SelectReady(outChan, cancelled) :
          IF br = "send"
            THEN /\ outChan' = Append(outChan, cur)
                 /\ enq' = Append(enq, cur)
                 /\ ppc' = "nextFile"
                 /\ UNCHANGED perr
            ELSE /\ ppc' = AfterDone
                 /\ perr' = "nil"
                 /\ UNCHANGED <<outChan, enq>>
    /\ nds' = <<>>          \* nds and cid are locals of the loop body
    /\ cur' = NoCid
    /\ UNCHANGED <<reqVars, cancelled, callerVars, idx, firsts, cids, staged,
                   pinVars, batch, closeCount, errSent, commitCalls, nodeVars,
                   gpc, urlVars, envVars>>

\* Variant of AfterCommit that pins without taking the pin lock.
AfterCommitNoLock(ok, pin) ==
    IF ok /\ pin THEN "pin" ELSE "close"

\* Variants of AfterCommit: one pins whatever the pin option says, one
\* calls Commit again when it failed.
AfterCommitAlwaysPin(ok, pin) ==
    IF ok THEN "pinLock" ELSE "close"
AfterCommitRetry(ok, pin) ==
    IF ok THEN (IF pin THEN "pinLock" ELSE "close") ELSE "commit"

\* dag.go:130-134: after Commit, pin only if it succeeded and pin was asked.
AfterCommit(ok, pin) ==
    IF ok /\ pin THEN "pinLock" ELSE AfterReturn

\* dag.go:130-132: b.Commit() persists the staged nodes; when it fails, an
\* arbitrary part of them may have been persisted.
Commit ==
    /\ ppc = "commit"
    /\ commitCalls' = commitCalls + 1
    /\ \E ok \in BOOLEAN :
          /\ ppc' = AfterCommit(ok, dopin)
          /\ IF ok THEN /\ store' = store \cup staged
                        /\ batch' = "committed"
                        /\ UNCHANGED perr
                   ELSE /\ \E S \in SUBSET staged : store' = store \cup S
                        /\ batch' = "failed"
                        /\ perr' = "ErrCommit"
    /\ UNCHANGED <<reqVars, cancelled, callerVars, loopVars, pinVars,
                   chanVars, pinset, durable, lock, gpc, urlVars, envVars>>

\* dag.go:135: defer nd.Blockstore.PinLock().Unlock() -- PinLock() is
\* evaluated by the defer statement, so the lock is taken here.
PinLock ==
    /\ ppc = "pinLock"
    /\ lock = "none"
    /\ lock' = "dagput"
    /\ topin' = cids
    /\ ppc' = "pin"
    /\ UNCHANGED <<reqVars, cancelled, callerVars, perr, loopVars, pinCalls,
                   flushCalls, pinAtFlush, batch, chanVars, commitCalls,
                   store, pinset, durable, gpc, urlVars, envVars>>

\* dag.go:137-140: one step of cids.ForEach.
PinWithMode ==
    /\ ppc = "pin"
    /\ \E c \in topin :
          /\ pinset' = [pinset EXCEPT ![c] = "Recursive"]
          /\ topin' = topin \ {c}
    /\ pinCalls' = pinCalls + 1
    /\ UNCHANGED <<reqVars, cancelled, callerVars, ppc, perr, loopVars,
                   flushCalls, pinAtFlush, batch, chanVars, commitCalls,
                   store, durable, lock, gpc, urlVars, envVars>>

\* Variant of FlushReady that lets Flush run inside the ForEach.
FlushAnytime(rest) == TRUE

\* dag.go:137-142: Flush follows the ForEach over all of cids.
FlushReady(rest) == rest = {}

\* Variant of AfterFlush that unlocks only when Flush succeeded.
AfterFlushLeak(ok) == IF ok THEN "unlock" ELSE "close"

\* dag.go:142-148: where the goroutine goes after Flush: addAllAndPin
\* returns (err or nil) and its deferred Unlock runs.
AfterFlush(ok) == "unlock"

\* dag.go:142-145: nd.Pinning.Flush() makes the pin set durable.
Flush ==
    /\ ppc = "pin"
    /\ FlushReady(topin)
    /\ flushCalls' = flushCalls + 1
    /\ pinAtFlush' = pinCalls
    /\ \E ok \in BOOLEAN :
          /\ ppc' = AfterFlush(ok)
          /\ IF ok THEN /\ durable' = pinset
                        /\ UNCHANGED perr
                   ELSE /\ perr' = "ErrFlush"
                        /\ UNCHANGED durable
    /\ UNCHANGED <<reqVars, cancelled, callerVars, loopVars, topin, pinCalls,
                   batch, chanVars, commitCalls, store, pinset, lock, gpc,
                   urlVars, envVars>>

\* dag.go:135: the deferred Unlock runs when addAllAndPin returns.
Unlock ==
    /\ ppc = "unlock"
    /\ lock' = "none"
    /\ ppc' = AfterReturn
    /\ UNCHANGED <<reqVars, cancelled, callerVars, perr, loopVars, pinVars,
                   batch, chanVars, commitCalls, store, pinset, durable, gpc,
                   urlVars, envVars>>

\* dag.go:155: defer close(outChan), the first deferred call to run.
CloseOut ==
    /\ ppc = "close"
    /\ closeCount' = closeCount + 1
    /\ ppc' = "sendErr"
    /\ UNCHANGED <<reqVars, cancelled, callerVars, perr, loopVars, pinVars,
                   batch, outChan, enq, errSent, commitCalls, nodeVars, gpc,
                   urlVars, envVars>>

\* dag.go:154 and 164: errC is unbuffered, so the goroutine's send and the
\* caller's receive happen together; Run returns the value received.
SendErr ==
    /\ ppc = "sendErr"
    /\ cpc = "waitErr"
    /\ errSent' = errSent + 1
    /\ cerr' = perr
    /\ cpc' = "returned"
    /\ ppc' = "done"
    /\ UNCHANGED <<reqVars, cancelled, received, perr, loopVars, pinVars,
                   batch, outChan, enq, closeCount, commitCalls, nodeVars,
                   gpc, urlVars, envVars>>

\* ------------------------------------------------------------- GC sweep

\* Blocks protected by the pin set: recursive roots and what they link to.
Protected(ps) ==
    LET rts == {c \in Cids : ps[c] = "Recursive"}
    IN  rts \cup UNION {Links(c) : c \in rts}

\* The sweep takes the pin lock before it computes reachability.
GCLock ==
    /\ gpc = "idle"
    /\ lock = "none"
    /\ lock' = "gc"
    /\ gpc' = "locked"
    /\ UNCHANGED <<putVars, store, pinset, durable, urlVars, envVars>>

\* The sweep deletes every block the pin set does not protect and releases
\* the lock.
GCSweep ==
    /\ gpc = "locked"
    /\ store' = store \cap Protected(pinset)
    /\ lock' = "none"
    /\ gpc' = "idle"
    /\ UNCHANGED <<putVars, pinset, durable, urlVars, envVars>>

\* -------------------------------------------------------------- UrlAdd

\* What the HTTP server may answer: status code and declared length.
HttpStatuses == {200, 404, 500}
HttpLengths == {0, 7}

\* Variant of UrlValidate that reads the configuration before it looks at
\* the argument.
UrlValidateConfigFirst(nodeErr, isUrl, cfgErr, enabled) ==
    IF nodeErr THEN "ErrGetNode"
    ELSE IF cfgErr THEN "ErrConfig"
    ELSE IF ~enabled THEN "ErrUrlstoreNotEnabled"
    ELSE IF ~isUrl THEN "ErrUnsupportedUrl"
    ELSE "ok"

\* urlstore.go:56-72: the checks made before any request is built, in the
\* order the code makes them; "ok" when all pass.
UrlValidate(nodeErr, isUrl, cfgErr, enabled) ==
    IF nodeErr THEN "ErrGetNode"
    ELSE IF ~isUrl THEN "ErrUnsupportedUrl"
    ELSE IF cfgErr THEN "ErrConfig"
    ELSE IF ~enabled THEN "ErrUrlstoreNotEnabled"
    ELSE "ok"

\* urlstore.go:54-75: validation of the argument and the configuration,
\* then the two options are read.
UrlAddRun ==
    /\ upc = "init"
    /\ \E nodeErr \in BOOLEAN, isUrl \in BOOLEAN, cfgErr \in BOOLEAN,
          enabled \in BOOLEAN, t \in BOOLEAN, p \in BOOLEAN :
          LET v == UrlValidate(nodeErr, isUrl, cfgErr, enabled)
          IN  /\ uargs' = [nodeErr |-> nodeErr, isUrl |-> isUrl,
                           cfgErr |-> cfgErr, enabled |-> enabled]
              /\ IF v = "ok"
                   THEN /\ upc' = "http"
                        /\ utrickle' = t
                        /\ udopin' = p
                        /\ UNCHANGED uerr
                   ELSE /\ upc' = "returned"
                        /\ uerr' = v
                        /\ UNCHANGED <<utrickle, udopin>>
    /\ UNCHANGED <<putVars, nodeVars, gpc, hres, ureqs, uout, ubuild,
                   envVars>>

\* Variant of StatusOk that accepts every status code.
StatusOkAny(code) == TRUE

\* urlstore.go:86: only status 200 lets the command go on.
StatusOk(code) == code = 200

\* urlstore.go:87: fmt.Errorf("expected code 200, got: %d", hres.StatusCode).
StatusErr(code) == "expected code 200, got: " \o ToString(code)

\* Variant of AfterHttp that goes on to build without the pin lock.
AfterHttpNoLock(pin) == "build"

\* urlstore.go:86-93: after a good response the pin lock is taken when
\* pinning was asked, before anything is chunked or built.
AfterHttp(pin) == IF pin THEN "lock" ELSE "build"

\* urlstore.go:77-88: build the request, send it, check the status.
UrlHttp ==
    /\ upc = "http"
    /\ \/ /\ upc' = "returned"
          /\ uerr' = "ErrNewRequest"
          /\ UNCHANGED <<hres, ureqs>>
       \/ /\ ureqs' = ureqs + 1
          /\ \/ /\ upc' = "returned"
                /\ uerr' = "ErrHttpDo"
                /\ UNCHANGED hres
             \/ \E code \in HttpStatuses, n \in HttpLengths :
                   /\ hres' = [status |-> code, len |-> n]
                   /\ IF StatusOk(code)
                        THEN /\ upc' = AfterHttp(udopin)
                             /\ UNCHANGED uerr
                        ELSE /\ upc' = "returned"
                             /\ uerr' = StatusErr(code)
    /\ UNCHANGED <<putVars, nodeVars, gpc, udopin, utrickle, uout, uargs,
                   ubuild, envVars>>

\* urlstore.go:92: defer n.Blockstore.PinLock().Unlock() -- the lock is
\* taken by the defer statement.
UrlPinLock ==
    /\ upc = "lock"
    /\ lock = "none"
    /\ lock' = "urladd"
    /\ upc' = "build"
    /\ UNCHANGED <<putVars, store, pinset, durable, gpc, uerr, udopin,
                   utrickle, hres, ureqs, uout, uargs, ubuild, envVars>>

\* urlstore.go:106-109: the layout is balanced unless trickle was asked;
\* the two layouts give different roots over the same leaves.
UrlLayout(trickle) == IF trickle THEN "trickle" ELSE "balanced"
UrlRoot(trickle) == IF UrlLayout(trickle) = "trickle" THEN "rootB" ELSE "rootA"

\* urlstore.go:111-122: where Run goes after the layout is built.
AfterBuild(ok, pin) ==
    IF ~ok THEN (IF pin THEN "unlock" ELSE "returned")
    ELSE IF pin THEN "pin" ELSE "emit"

\* urlstore.go:97-104: the DagBuilderParams UrlAdd builds with.
UrlRawLeaves == TRUE
UrlNoCopy == TRUE

\* urlstore.go:95-114: chunk the body and build the DAG into n.DAG; a
\* failing build may have written part of the blocks.
UrlBuild ==
    /\ upc = "build"
    /\ ubuild' = [layout |-> UrlLayout(utrickle), rawLeaves |-> UrlRawLeaves,
                  noCopy |-> UrlNoCopy]
    /\ LET blocks == {UrlRoot(utrickle)} \cup Links(UrlRoot(utrickle))
       IN  \E ok \in BOOLEAN :
              /\ upc' = AfterBuild(ok, udopin)
              /\ IF ok THEN /\ store' = store \cup blocks
                            /\ UNCHANGED uerr
                       ELSE /\ \E S \in SUBSET blocks : store' = store \cup S
                            /\ uerr' = "ErrBuild"
    /\ UNCHANGED <<putVars, pinset, durable, lock, gpc, udopin, utrickle,
                   hres, ureqs, uout, uargs, envVars>>

\* urlstore.go:118: n.Pinning.PinWithMode(c, pin.Recursive).
UrlPinWithMode ==
    /\ upc = "pin"
    /\ pinset' = [pinset EXCEPT ![UrlRoot(utrickle)] = "Recursive"]
    /\ upc' = "flush"
    /\ UNCHANGED <<putVars, store, durable, lock, gpc, uerr, udopin,
                   utrickle, hres, ureqs, uout, uargs, ubuild, envVars>>

\* Variant of UrlAfterFlush that emits the result whatever Flush returned.
UrlAfterFlushEmit(ok) == "emit"

\* urlstore.go:119-122: where Run goes after Flush.
UrlAfterFlush(ok) == IF ok THEN "emit" ELSE "unlock"

\* urlstore.go:119-121: n.Pinning.Flush().
UrlFlush ==
    /\ upc = "flush"
    /\ \E ok \in BOOLEAN :
          /\ upc' = UrlAfterFlush(ok)
          /\ IF ok THEN /\ durable' = pinset
                        /\ UNCHANGED uerr
                   ELSE /\ uerr' = "ErrFlush"
                        /\ UNCHANGED durable
    /\ UNCHANGED <<putVars, store, pinset, lock, gpc, udopin, utrickle, hres,
                   ureqs, uout, uargs, ubuild, envVars>>

\* urlstore.go:124-127: cmds.EmitOnce of the BlockStat; Run returns what
\* EmitOnce returns, and the deferred Unlock runs if it was registered.
UrlEmit ==
    /\ upc = "emit"
    /\ \E ok \in BOOLEAN :
          IF ok THEN /\ uout' = Append(uout, [Key |-> UrlRoot(utrickle),
                                             Size |-> hres.len])
                     /\ uerr' = "nil"
                ELSE /\ uerr' = "ErrEmit"
                     /\ UNCHANGED uout
    /\ upc' = IF udopin THEN "unlock" ELSE "returned"
    /\ UNCHANGED <<putVars, nodeVars, gpc, udopin, utrickle, hres, ureqs,
                   uargs, ubuild, envVars>>

\* urlstore.go:92: the deferred Unlock runs when Run returns.
UrlUnlock ==
    /\ upc = "unlock"
    /\ lock' = "none"
    /\ upc' = "returned"
    /\ UNCHANGED <<putVars, store, pinset, durable, gpc, uerr, udopin,
                   utrickle, hres, ureqs, uout, uargs, ubuild, envVars>>

\* ------------------------------------------------ DagGet and DagResolve

\* The DAG the two commands read: a directory over rootA, the two roots
\* over the leaf. The links are named; some nodes also have inner fields.
DirCid == "dir"
GetCids == Cids \cup {DirCid}
SegNames == {"sub", "a", "meta", "size", "zz"}

LinkNamed(c) ==
    CASE c = DirCid  -> [n \in {"sub"} |-> "rootA"]
      [] c = "rootA" -> [n \in {"a"} |-> LeafCid]
      [] c = "rootB" -> [n \in {"a"} |-> LeafCid]
      [] OTHER       -> [n \in {} |-> NoCid]

\* The paths that address data inside a node's decoded value.
InnerPaths(c) ==
    CASE c = "rootA" -> {<<"meta">>, <<"meta", "size">>}
      [] c = LeafCid -> {<<"size">>}
      [] OTHER       -> {}

SegSeqs == UNION {[1..n -> SegNames] : n \in 0..MaxSegs}

\* What a command can emit: a whole node, or a value inside a node.
NodeValue(c) == [kind |-> "node", cid |-> c, at |-> <<>>]
InnerValue(c, p) == [kind |-> "inner", cid |-> c, at |-> p]
NoValue == [kind |-> "none", cid |-> NoCid, at |-> <<>>]

\* resolve_inner: does the segment address data inside the node?
ResolveInner(c, seg) == \E p \in InnerPaths(c) : p[1] = seg

Resolved(c, rem) == [err |-> "nil", cid |-> c, rem |-> rem]
ResolveFailed(e) == [err |-> e, cid |-> NoCid, rem |-> <<>>]

\* The walk from a node already fetched: follow the link the next segment
\* names, else stop at inner data, else the path does not exist. 'down' is
\* the block the store cannot deliver.
RECURSIVE Walk(_, _, _)
Walk(c, segs, down) ==
    IF segs = <<>> THEN Resolved(c, <<>>)
    ELSE IF Head(segs) \in DOMAIN LinkNamed(c)
      THEN LET t == LinkNamed(c)[Head(segs)]
           IN  IF t = down THEN ResolveFailed("FetchFailed")
                           ELSE Walk(t, Tail(segs), down)
    ELSE IF ResolveInner(c, Head(segs)) THEN Resolved(c, segs)
    ELSE ResolveFailed("PathNotFound")

\* Resolver.ResolveToLastNode: no segments resolve to the root itself.
ResolveToLastNode(root, segs, down) ==
    IF segs = <<>> THEN Resolved(root, <<>>)
    ELSE IF root = down THEN ResolveFailed("FetchFailed")
    ELSE Walk(root, segs, down)

\* obj.Resolve(rem): the value inside the node at rem.
NodeResolve(c, rem) ==
    IF rem \in InnerPaths(c)
      THEN [err |-> "nil", val |-> InnerValue(c, rem)]
      ELSE [err |-> "ErrInner", val |-> NoValue]

\* path.Join(rem): the segments joined with "/".
RECURSIVE PathJoin(_)
PathJoin(segs) ==
    IF segs = <<>> THEN ""
    ELSE IF Len(segs) = 1 THEN segs[1]
    ELSE segs[1] \o "/" \o PathJoin(Tail(segs))

\* Variant of GetOut that emits the fetched node whatever the remainder.
GetOutNode(c, rem) == [err |-> "nil", val |-> NodeValue(c)]

\* dag.go:206-213: out is the node, or what obj.Resolve(rem) gives when
\* the resolver left a remainder.
GetOut(c, rem) ==
    IF Len(rem) > 0 THEN NodeResolve(c, rem)
                    ELSE [err |-> "nil", val |-> NodeValue(c)]

\* dag.go:186-214 as a function of what the environment answers: the
\* error Run returns, the resolver's result and the values emitted.
DagGet(in) ==
    LET r == ResolveToLastNode(in.root, in.segs, in.down)
        o == GetOut(r.cid, r.rem)
    IN  IF in.nodeErr THEN [err |-> "ErrGetNode", res |-> NoResolved, out |-> <<>>]
        ELSE IF ~in.parseOk
          THEN [err |-> "ErrParsePath", res |-> NoResolved, out |-> <<>>]
        ELSE IF r.err # "nil" THEN [err |-> r.err, res |-> r, out |-> <<>>]
        ELSE IF ~in.getOk THEN [err |-> "ErrGet", res |-> r, out |-> <<>>]
        ELSE IF o.err # "nil" THEN [err |-> o.err, res |-> r, out |-> <<>>]
        ELSE IF ~in.emitOk THEN [err |-> "ErrEmit", res |-> r, out |-> <<>>]
        ELSE [err |-> "nil", res |-> r, out |-> <<o.val>>]

\* dag.go:229-248 in the same way.
DagResolve(in) ==
    LET r == ResolveToLastNode(in.root, in.segs, in.down)
    IN  IF in.nodeErr THEN [err |-> "ErrGetNode", res |-> NoResolved, out |-> <<>>]
        ELSE IF ~in.parseOk
          THEN [err |-> "ErrParsePath", res |-> NoResolved, out |-> <<>>]
        ELSE IF r.err # "nil" THEN [err |-> r.err, res |-> r, out |-> <<>>]
        ELSE IF ~in.emitOk THEN [err |-> "ErrEmit", res |-> r, out |-> <<>>]
        ELSE [err |-> "nil", res |-> r,
              out |-> <<[Cid |-> r.cid, RemPath |-> PathJoin(r.rem)]>>]

\* The requests and environments the two commands are run on.
Queries ==
    [nodeErr : BOOLEAN, parseOk : BOOLEAN, root : GetCids, segs : SegSeqs,
     down : GetCids \cup {NoCid}, getOk : BOOLEAN, emitOk : BOOLEAN]

\* DagGetCmd.Run, dag.go:186-214.
DagGetRun ==
    /\ qpc = "init"
    /\ \E in \in Queries :
          /\ qin' = in
          /\ qres' = DagGet(in).res
          /\ qout' = DagGet(in).out
          /\ qerr' = DagGet(in).err
    /\ qcmd' = "get"
    /\ qpc' = "returned"
    /\ UNCHANGED <<putVars, nodeVars, gpc, urlVars, fileCap, swarmVars>>

\* DagResolveCmd.Run, dag.go:229-248.
DagResolveRun ==
    /\ qpc = "init"
    /\ \E in \in Queries :
          /\ qin' = in
          /\ qres' = DagResolve(in).res
          /\ qout' = DagResolve(in).out
          /\ qerr' = DagResolve(in).err
    /\ qcmd' = "resolve"
    /\ qpc' = "returned"
    /\ UNCHANGED <<putVars, nodeVars, gpc, urlVars, fileCap, swarmVars>>

\* ---------------------------------------------------- SwarmAPI.Disconnect

\* The peers and remote transport addresses of the model's connections.
Peers == {"p1", "p2"}
Transports == {"ip1", "ip2"}

\* The connection lists a swarm may hold: each connection has its peer and
\* its remote address; n tells connections with equal ends apart.
ConnLists ==
    UNION {{[i \in 1..k |-> [n |-> i, peer |-> f[i][1], raddr |-> f[i][2]]] :
              f \in [1..k -> Peers \X Transports]} : k \in 0..MaxConns}

\* net.ConnsToPeer(id).
ConnsToPeer(conns, id) == SelectSeq(conns, LAMBDA c : c.peer = id)

\* net.Connectedness(id) == inet.Connected.
Connected(conns, id) == ConnsToPeer(conns, id) # <<>>

\* Variant of MatchIndex that takes the last connection with that address.
MatchIndexLast(cs, taddr) ==
    LET hits == {i \in 1..Len(cs) : cs[i].raddr = taddr}
    IN  IF hits = {} THEN 0
        ELSE CHOOSE i \in hits : \A j \in hits : j <= i

\* swarm.go:66-72: the position in cs of the first connection whose
\* RemoteMultiaddr equals taddr; 0 when the loop ends without one.
MatchIndex(cs, taddr) ==
    LET hits == {i \in 1..Len(cs) : cs[i].raddr = taddr}
    IN  IF hits = {} THEN 0
        ELSE CHOOSE i \in hits : \A j \in hits : i <= j

\* What a Close or ClosePeer returns.
CloseErr(ok) == IF ok THEN "nil" ELSE "ErrClose"

\* swarm.go:45-78 as a function of the node, the parsed address and the
\* swarm's connections: the error returned, the connections left open and
\* the connections closed.
Disconnect(host, conns, in) ==
    LET same == [err |-> "nil", conns |-> conns, closed |-> <<>>]
        cs == ConnsToPeer(conns, in.id)
        m == MatchIndex(cs, in.taddr)
    IN  IF ~host THEN [same EXCEPT !.err = "ErrOffline"]
        ELSE IF ~in.parseOk THEN [same EXCEPT !.err = "ErrParseMultiaddr"]
        ELSE IF in.taddr = NoTransport
          THEN IF ~Connected(conns, in.id)
                 THEN [same EXCEPT !.err = "ErrNotConnected"]
                 ELSE [err |-> CloseErr(in.closeOk),
                       conns |-> SelectSeq(conns, LAMBDA c : c.peer # in.id),
                       closed |-> cs]
        ELSE IF m = 0 THEN [same EXCEPT !.err = "ErrConnNotFound"]
        ELSE [err |-> CloseErr(in.closeOk),
              conns |-> SelectSeq(conns, LAMBDA c : c # cs[m]),
              closed |-> <<cs[m]>>]

\* The addresses Disconnect is called with and what Close answers.
Disconnects ==
    [parseOk : BOOLEAN, id : Peers, taddr : Transports \cup {NoTransport},
     closeOk : BOOLEAN]

\* SwarmAPI.Disconnect, swarm.go:45-78.
DisconnectRun ==
    /\ spc = "init"
    /\ \E in \in Disconnects :
          /\ sin' = in
          /\ serr' = Disconnect(shost, sconns, in).err
          /\ sconns' = Disconnect(shost, sconns, in).conns
          /\ sclosed' = Disconnect(shost, sconns, in).closed
    /\ sbefore' = sconns
    /\ spc' = "returned"
    /\ UNCHANGED <<putVars, nodeVars, gpc, urlVars, fileCap, getVars, shost>>

\* ------------------------------------------------------- specifications

\* 'dag put' alone: caller, producer goroutine and request context.
Next ==
    \/ DagPutRun \/ EmitNext \/ EmitEnd \/ Cancel
    \/ Begin \/ NextFile \/ ParseInputs \/ AddNodes \/ Select \/ Commit
    \/ PinLock \/ PinWithMode \/ Flush \/ Unlock \/ CloseOut \/ SendErr

Spec == Init /\ [][Next]_vars

\* The steps of Run's own goroutine and of the goroutine it starts.
CallerStep == DagPutRun \/ EmitNext \/ EmitEnd
ProducerStep ==
    \/ Begin \/ NextFile \/ ParseInputs \/ AddNodes \/ Select \/ Commit
    \/ PinLock \/ PinWithMode \/ Flush \/ Unlock \/ CloseOut \/ SendErr

\* 'dag put' alone under the Go scheduler: a goroutine that can take a
\* step eventually takes one. Cancellation is up to the client.
SpecLive ==
    Init /\ [][Next]_vars /\ WF_vars(CallerStep) /\ WF_vars(ProducerStep)

\* 'dag put', 'urlstore add' and a GC sweep running on the same node.
NextBusy ==
    \/ Next
    \/ UrlAddRun \/ UrlHttp \/ UrlPinLock \/ UrlBuild \/ UrlPinWithMode
    \/ UrlFlush \/ UrlEmit \/ UrlUnlock
    \/ GCLock \/ GCSweep

SpecBusy == InitBusy /\ [][NextBusy]_vars

\* 'urlstore add' and a GC sweep, with no 'dag put' on the node.
NextUrl ==
    \/ UrlAddRun \/ UrlHttp \/ UrlPinLock \/ UrlBuild \/ UrlPinWithMode
    \/ UrlFlush \/ UrlEmit \/ UrlUnlock
    \/ GCLock \/ GCSweep

SpecUrl == InitBusy /\ [][NextUrl]_vars

\* 'dag get' or 'dag resolve' on a path, against a store that may fail.
NextGet == DagGetRun \/ DagResolveRun

SpecGet == InitBusy /\ [][NextGet]_vars

\* A node that is offline, or online with some connections open, on which
\* Disconnect is called.
InitSwarm ==
    /\ InitCore /\ fileCap = MaxNodeFiles
    /\ shost \in BOOLEAN
    /\ sconns \in (IF shost THEN ConnLists ELSE {<<>>})

NextSwarm == DisconnectRun

SpecSwarm == InitSwarm /\ [][NextSwarm]_vars

\* ----------------------------------------------------------- properties

\* Positions at which addAllAndPin has returned.
Returned == {"close", "sendErr", "done"}

\* Errors of the chunking/parsing steps of the loop.
ParseErrs == {"ErrNextFile", "ErrParse", "ErrNoNodes"}

\* C1: in DagPut with pin=true no GC sweep holds the pin lock between the
\* moment the batch is committed and the moment its roots are pinned and
\* flushed.
C1_NoSweepInPinWindow ==
    ~(/\ gpc = "locked"
      /\ dopin
      /\ batch = "committed"
      /\ flushCalls = 0)

\* C2: outChan is closed exactly once, only after the producer stopped
\* enqueuing; the producer's outcome is delivered on errC at most once,
\* after the close, and is what Run returns; a finished goroutine has
\* closed once and sent once.
C2_CloseOnceThenErr ==
    /\ closeCount <= 1
    /\ errSent <= 1
    /\ closeCount = 1 <=> ppc \in {"sendErr", "done"}
    /\ errSent = 1 <=> ppc = "done"
    /\ errSent = 1 => closeCount = 1 /\ cpc = "returned" /\ cerr = perr

C2_Witness ==
    /\ ppc = "done" /\ closeCount = 1 /\ errSent = 1
    /\ cerr = "ErrCommit" /\ Len(received) = 2

\* C3 (as claimed): a producer that leaves the select while the context is
\* cancelled has not enqueued the CID and has returned, whatever the
\* occupancy of the queue.
C3_CancelNeverEnqueues ==
    [][(ppc = "select" /\ cancelled /\ ppc' # "select")
         => (enq' = enq /\ ppc' = "close" /\ perr' = "nil")]_vars

\* C3 (amended): when the context is cancelled and the queue is full, the
\* producer leaves the select by returning nil: the CID is not enqueued and
\* no further file is read.
C3_CancelFullQueueReturns ==
    [][(/\ ppc = "select" /\ cancelled /\ Len(outChan) = OutChanCap
        /\ ppc' # "select")
         => (/\ enq' = enq /\ outChan' = outChan /\ idx' = idx
             /\ ppc' = "close" /\ perr' = "nil")]_vars

C3_Witness ==
    /\ ppc = "close" /\ perr = "nil" /\ cancelled /\ commitCalls = 0
    /\ Len(outChan) = OutChanCap /\ idx = OutChanCap + 1
    /\ Len(enq) = OutChanCap

\* C4: whenever Run returns nil, every CID placed on the result queue has
\* been committed: Commit ran and succeeded, and the nodes are in the store.
C4_NilMeansCommitted ==
    (cpc = "returned" /\ cerr = "nil" /\ enq # <<>>)
        => (batch = "committed" /\ Range(enq) \subseteq store)

\* C5 (as claimed): when NextFile or ParseInputs fails, or ParseInputs
\* returns no node, no CID of the build has been put on the result queue.
C5_ParseErrorEmitsNothing ==
    perr \in ParseErrs => enq = <<>>

\* C5 (amended): when NextFile or ParseInputs fails, or ParseInputs returns
\* no node, the build aborts at once (no Commit, no pin) and nothing is
\* enqueued for the failing file or a later one: the queue received exactly
\* the first-node CIDs of the files before the failing one.
C5_ParseErrorStopsEmitting ==
    perr \in ParseErrs =>
        /\ ppc \in Returned
        /\ commitCalls = 0 /\ pinCalls = 0 /\ flushCalls = 0
        /\ enq = firsts
        /\ Len(enq) = IF perr = "ErrNextFile" THEN idx ELSE idx - 1

C5_Witness ==
    /\ perr = "ErrParse" /\ idx = 3 /\ Len(enq) = 2 /\ Len(received) = 2
    /\ ppc = "done" /\ cerr = "ErrParse"

\* C6: once addAllAndPin (DagPut) or Run (UrlAdd) has returned, it does not
\* hold the pin lock, whether Flush or the layout build succeeded or failed.
C6_LockReleasedOnReturn ==
    /\ ppc \in Returned => lock # "dagput"
    /\ upc = "returned" => lock # "urladd"

C6_Witness ==
    /\ ppc = "done" /\ perr = "ErrFlush" /\ flushCalls = 1
    /\ upc = "returned" /\ uerr = "ErrBuild" /\ udopin
    /\ lock = "none"

\* The processes that are inside a pin-lock section, by their position.
LockHolders ==
    (IF ppc \in {"pin", "unlock"} THEN {"dagput"} ELSE {}) \cup
    (IF udopin /\ upc \in {"build", "pin", "flush", "emit", "unlock"}
       THEN {"urladd"} ELSE {}) \cup
    (IF gpc = "locked" THEN {"gc"} ELSE {})

\* C7: DagPut and UrlAdd are at a PinWithMode or Flush step only while they
\* hold the pin lock, and at most one of DagPut, UrlAdd and the GC sweep
\* holds it.
C7_PinUnderLock ==
    /\ ppc = "pin" => lock = "dagput"
    /\ upc \in {"pin", "flush"} => lock = "urladd"
    /\ Cardinality(LockHolders) <= 1
    /\ LockHolders = IF lock = "none" THEN {} ELSE {lock}

C7_Witness ==
    /\ ppc = "pin" /\ lock = "dagput" /\ topin # {}
    /\ upc = "lock" /\ gpc = "idle"

\* C8: in DagPut with pin=true, PinWithMode and Flush happen only after a
\* successful Commit; Flush is called once, after a PinWithMode for every
\* distinct root, so every emitted CID is then Recursive; after a failed
\* Commit there is no PinWithMode and no Flush.
C8_PinAfterCommit ==
    dopin =>
        /\ (pinCalls > 0 \/ flushCalls > 0 \/ ppc \in {"pin", "unlock"})
              => batch = "committed"
        /\ batch = "failed" => pinCalls = 0 /\ flushCalls = 0
        /\ flushCalls <= 1
        /\ flushCalls = 1 =>
              /\ pinAtFlush = Cardinality(cids)
              /\ pinCalls = pinAtFlush
              /\ \A c \in Range(enq) : pinset[c] = "Recursive"
        /\ (batch = "committed" /\ ppc \in Returned) => flushCalls = 1

C8_Witness ==
    /\ dopin /\ ppc = "done" /\ flushCalls = 1 /\ pinCalls = 2
    /\ Len(enq) = 3 /\ perr = "nil"

\* C9: an unknown hash name makes Run return an error before any file is
\* read, any batch created, the producer started, anything stored, emitted,
\* locked or pinned.
C9_BadHashBeforeIO ==
    (cpc # "init" /\ hash \notin ({""} \cup MhNames)) =>
        /\ cpc = "returned" /\ cerr \in {"ErrBadHash", "ErrGetNode"}
        /\ ppc = "idle" /\ batch = "none" /\ idx = 0 /\ staged = {}
        /\ store = {} /\ enq = <<>> /\ outChan = <<>> /\ received = <<>>
        /\ closeCount = 0 /\ commitCalls = 0
        /\ lock = "none" /\ pinset = NoPins /\ durable = NoPins

C9_Witness ==
    hash = "murmur9" /\ cpc = "returned" /\ cerr = "ErrBadHash"

\* C10: in a run with no error and no cancellation the consumer received
\* one CID per input file, in file order, each the CID of the file's first
\* node; and when a file's CID is about to be queued, all its nodes are
\* staged.
C10_OneCidPerFileInOrder ==
    /\ (cpc = "returned" /\ cerr = "nil" /\ ~cancelled) =>
          (received = firsts /\ Len(received) = idx)
    /\ ppc = "select" => (Range(nds) \subseteq staged /\ nds # <<>>)

C10_Witness ==
    /\ cpc = "returned" /\ cerr = "nil" /\ ~cancelled
    /\ Len(received) = 3 /\ LeafCid \in staged

\* C11: in DagPut with pin=false, whatever the outcome, the pin lock is
\* never taken, no PinWithMode and no Flush is made, and the pin set (in
\* memory and durable) stays as it was.
C11_NoPinWithoutOption ==
    ~dopin =>
        /\ ppc \notin {"pinLock", "pin", "unlock"}
        /\ lock # "dagput"
        /\ pinCalls = 0 /\ flushCalls = 0
        /\ pinset = NoPins /\ durable = NoPins

C11_Witness ==
    /\ ~dopin /\ ppc = "done" /\ batch = "committed" /\ cerr = "nil"
    /\ Len(received) = 2 /\ pinset = NoPins

\* C12: Commit runs at most once; when it fails its error is the
\* goroutine's outcome and the one value delivered on errC, and the
\* operation has returned without taking the pin lock or pinning.
C12_CommitErrorOnceNoPin ==
    /\ commitCalls <= 1
    /\ batch = "failed" =>
          /\ commitCalls = 1
          /\ perr = "ErrCommit"
          /\ ppc \in Returned
          /\ lock # "dagput" /\ pinCalls = 0 /\ flushCalls = 0
          /\ pinset = NoPins
          /\ errSent = 1 => cerr = "ErrCommit"

C12_Witness ==
    /\ batch = "failed" /\ dopin /\ ppc = "done" /\ errSent = 1
    /\ cerr = "ErrCommit" /\ commitCalls = 1

\* C13 (as claimed): the queue never holds more than OutChanCap records;
\* while it holds OutChanCap and the context is not cancelled the producer
\* takes no step at all (it parses no further file); at the select with
\* room in the queue the producer can go on.
C13_FullQueueStopsProducer ==
    /\ [](Len(outChan) <= OutChanCap)
    /\ [][(Len(outChan) = OutChanCap /\ ~cancelled)
            => (ppc' = ppc /\ idx' = idx)]_vars
    /\ []((ppc = "select" /\ Len(outChan) < OutChanCap) => ENABLED Select)

\* C13 (amended): the queue never holds more than OutChanCap records; a
\* producer at the select with OutChanCap records queued and the context
\* not cancelled takes no step, so at most one file beyond the queued ones
\* has been read; at the select with room in the queue it can go on.
C13_FullQueueBlocksEnqueue ==
    /\ [](Len(outChan) <= OutChanCap)
    /\ [](idx <= Len(enq) + 1)
    /\ [][(ppc = "select" /\ Len(outChan) = OutChanCap /\ ~cancelled)
            => (ppc' = ppc /\ idx' = idx /\ enq' = enq)]_vars
    /\ []((ppc = "select" /\ Len(outChan) < OutChanCap) => ENABLED Select)

C13_Witness ==
    /\ ppc = "select" /\ Len(outChan) = OutChanCap /\ ~cancelled
    /\ idx = OutChanCap + 1 /\ cpc = "emit"

\* C14: in UrlAdd a response whose status is not 200 ends the command with
\* an error that names the status code received; the pin lock is not
\* taken, nothing is chunked or built, the store and the pin set are as
\* they were and no result is emitted.
C14_Non200Aborts ==
    hres.status \in {404, 500} =>
        /\ upc = "returned"
        /\ uerr = (IF hres.status = 404 THEN "expected code 200, got: 404"
                                        ELSE "expected code 200, got: 500")
        /\ ureqs = 1
        /\ lock # "urladd"
        /\ ubuild = NotBuilt
        /\ store = {}
        /\ pinset = NoPins /\ durable = NoPins
        /\ uout = <<>>

C14_Witness ==
    /\ hres = [status |-> 500, len |-> 7] /\ upc = "returned" /\ udopin
    /\ uerr = "expected code 200, got: 500" /\ store = {}

\* C15: UrlAdd emits at most one result, and exactly one when it returns
\* without error; the result is emitted after the build and, with pin=true,
\* after the root was pinned Recursive and Flush made it durable; a failed
\* build or Flush emits nothing. The result is the root of the layout asked
\* for (balanced unless trickle), built with raw leaves, with the declared
\* content length as Size.
C15_OneResultAfterBuildAndPin ==
    /\ Len(uout) <= 1
    /\ uerr \in {"ErrBuild", "ErrFlush"} => uout = <<>>
    /\ (upc = "returned" /\ uerr = "nil") => Len(uout) = 1
    /\ uout # <<>> =>
          /\ uerr = "nil"
          /\ hres.status = 200
          /\ ubuild.layout = (IF utrickle THEN "trickle" ELSE "balanced")
          /\ ubuild.rawLeaves
          /\ uout[1].Key = (IF utrickle THEN "rootB" ELSE "rootA")
          /\ uout[1].Size = hres.len
          /\ udopin => /\ pinset[uout[1].Key] = "Recursive"
                       /\ durable[uout[1].Key] = "Recursive"
    /\ ubuild # NotBuilt =>
          /\ ubuild.layout = (IF utrickle THEN "trickle" ELSE "balanced")
          /\ ubuild.rawLeaves

C15_Witness ==
    /\ Len(uout) = 1 /\ uout[1] = [Key |-> "rootB", Size |-> 7]
    /\ udopin /\ utrickle /\ upc = "returned" /\ uerr = "nil"
    /\ durable["rootB"] = "Recursive" /\ lock = "none"

\* C18: in UrlAdd with pin=true nothing is chunked or written before the
\* pin lock is held, and the lock stays held through the build, the
\* PinWithMode and the Flush, so no GC sweep holds it in between; with
\* pin=false UrlAdd never holds the lock.
C18_UrlLockCoversBuildAndPin ==
    /\ (udopin /\ upc \in {"init", "http", "lock"}) => ubuild = NotBuilt
    /\ (udopin /\ upc \in {"build", "pin", "flush", "emit", "unlock"}) =>
          /\ lock = "urladd"
          /\ gpc # "locked"
          /\ ppc \notin LockHolders
    /\ ~udopin => lock # "urladd"

C18_Witness ==
    /\ udopin /\ upc = "emit" /\ lock = "urladd"
    /\ durable["rootA"] = "Recursive"
    /\ gpc = "idle" /\ ppc = "pinLock"

\* C20: UrlAdd checks its argument, then the configuration read, then the
\* urlstore experiment flag; when any of them fails the command has
\* returned that check's error (the first failing one in this order) with
\* no HTTP request issued and the pin lock, the pin set and the store
\* untouched; a request is issued only when all of them pass.
C20_ValidationBeforeIO ==
    upc # "init" =>
        LET bad == uargs.nodeErr \/ ~uargs.isUrl \/ uargs.cfgErr
                     \/ ~uargs.enabled
        IN  /\ bad =>
                 /\ upc = "returned"
                 /\ ureqs = 0 /\ hres = NoResponse
                 /\ lock # "urladd" /\ ubuild = NotBuilt
                 /\ pinset = NoPins /\ durable = NoPins
                 /\ store = {}
                 /\ uout = <<>>
            /\ (~uargs.nodeErr /\ ~uargs.isUrl) => uerr = "ErrUnsupportedUrl"
            /\ (~uargs.nodeErr /\ uargs.isUrl /\ uargs.cfgErr) =>
                  uerr = "ErrConfig"
            /\ (~uargs.nodeErr /\ uargs.isUrl /\ ~uargs.cfgErr
                  /\ ~uargs.enabled) => uerr = "ErrUrlstoreNotEnabled"
            /\ ureqs > 0 => ~bad

C20_Witness ==
    /\ upc = "returned" /\ uerr = "ErrUnsupportedUrl"
    /\ ~uargs.isUrl /\ uargs.cfgErr /\ ~uargs.enabled /\ ~uargs.nodeErr
    /\ ureqs = 0 /\ gpc = "locked"

\* C19: every goroutine started by DagPut eventually finishes -- it does
\* not stay blocked on the send to outChan or on the send to errC, also
\* when res.Emit fails or the consumer stops draining.
C19_ProducerTerminates == (ppc = "begin") ~> (ppc = "done")

\* C16: DagGet emits the node at the resolver's last CID when the resolver
\* left no remainder and otherwise the value inside that node at the
\* remainder; DagResolve emits the last CID with the remainder joined by
\* "/"; a failure of GetNode, path parsing, resolution, fetch or inner
\* resolution is the error returned, and nothing is emitted with an error.
C16_GetAndResolveOutputs ==
    qpc = "returned" =>
        /\ qerr # "nil" => qout = <<>>
        /\ qerr = "nil" => Len(qout) = 1 /\ qres.err = "nil"
        /\ (qerr = "nil" /\ qcmd = "get") =>
              IF qres.rem = <<>>
                THEN qout[1] = [kind |-> "node", cid |-> qres.cid,
                                at |-> <<>>]
                ELSE /\ qout[1] = [kind |-> "inner", cid |-> qres.cid,
                                   at |-> qres.rem]
                     /\ qres.rem \in InnerPaths(qres.cid)
        /\ (qerr = "nil" /\ qcmd = "resolve") =>
              /\ qout[1].Cid = qres.cid
              /\ LET joined[i \in 0..Len(qres.rem)] ==
                         IF i = 0 THEN ""
                         ELSE IF i = 1 THEN qres.rem[1]
                         ELSE joined[i - 1] \o "/" \o qres.rem[i]
                 IN  qout[1].RemPath = joined[Len(qres.rem)]
              /\ qres.rem = <<"meta", "size">> =>
                    qout[1].RemPath = "meta/size"
        /\ qin.nodeErr => qerr = "ErrGetNode"
        /\ (~qin.nodeErr /\ ~qin.parseOk) => qerr = "ErrParsePath"
        /\ qres.err \in {"FetchFailed", "PathNotFound"} => qerr = qres.err
        /\ (qcmd = "get" /\ qres.err = "nil" /\ ~qin.getOk) => qerr = "ErrGet"
        /\ (qcmd = "get" /\ qres.err = "nil" /\ qin.getOk
              /\ qres.rem # <<>> /\ qres.rem \notin InnerPaths(qres.cid)) =>
              qerr = "ErrInner"

C16_Witness ==
    /\ qpc = "returned" /\ qcmd = "get" /\ qerr = "nil"
    /\ qin.root = "dir" /\ qin.segs = <<"sub", "meta", "size">>
    /\ qres = [err |-> "nil", cid |-> "rootA", rem |-> <<"meta", "size">>]
    /\ qout = <<[kind |-> "inner", cid |-> "rootA",
                 at |-> <<"meta", "size">>]>>

\* C21: Disconnect on a node without a peer host returns ErrOffline and
\* closes nothing. On an address without a transport part it returns
\* ErrNotConnected and closes nothing when the peer has no connection, and
\* otherwise closes every connection to the peer and no other. On an
\* address with a transport part it closes exactly one connection, the
\* first one to that peer whose remote address is the transport address,
\* or returns ErrConnNotFound and closes nothing when there is none.
C21_DisconnectClosesWhatItNames ==
    spc = "returned" =>
        LET toPeer == {i \in 1..Len(sbefore) : sbefore[i].peer = sin.id}
            hits == {i \in toPeer : sbefore[i].raddr = sin.taddr}
            untouched == sconns = sbefore /\ sclosed = <<>>
        IN  /\ ~shost => serr = "ErrOffline" /\ untouched
            /\ (shost /\ sin.parseOk /\ sin.taddr = NoTransport) =>
                  IF toPeer = {}
                    THEN serr = "ErrNotConnected" /\ untouched
                    ELSE /\ serr \in {"nil", "ErrClose"}
                         /\ Range(sclosed) = {sbefore[i] : i \in toPeer}
                         /\ Len(sclosed) = Cardinality(toPeer)
                         /\ Range(sconns) =
                               Range(sbefore) \ Range(sclosed)
                         /\ Len(sconns) = Len(sbefore) - Len(sclosed)
            /\ (shost /\ sin.parseOk /\ sin.taddr # NoTransport) =>
                  IF hits = {}
                    THEN serr = "ErrConnNotFound" /\ untouched
                    ELSE /\ serr \in {"nil", "ErrClose"}
                         /\ Len(sclosed) = 1
                         /\ \E i \in hits :
                               /\ \A j \in hits : i <= j
                               /\ sclosed[1] = sbefore[i]
                               /\ sconns = SubSeq(sbefore, 1, i - 1) \o
                                     SubSeq(sbefore, i + 1, Len(sbefore))

C21_Witness ==
    /\ spc = "returned" /\ shost /\ serr = "nil"
    /\ sin.id = "p1" /\ sin.taddr = "ip1"
    /\ sbefore = <<[n |-> 1, peer |-> "p2", raddr |-> "ip1"],
                   [n |-> 2, peer |-> "p1", raddr |-> "ip1"],
                   [n |-> 3, peer |-> "p1", raddr |-> "ip1"]>>
    /\ sclosed = <<[n |-> 2, peer |-> "p1", raddr |-> "ip1"]>>
    /\ Len(sconns) = 2

====
